---- MODULE Spec2Model ----
(***************************************************************************)
(* The PDF integration page of src/src/App.tsx as a state machine: the     *)
(* React state of App, the font-loading effect, the upload / remove /      *)
(* settings handlers and the asynchronous handler processAndMergePDFs,     *)
(* whose awaits are the points where other events interleave.              *)
(*                                                                         *)
(* Texts: the module language has ASCII strings only, so the CJK literals  *)
(* of the source are written in pinyin ("fujian" for the default           *)
(* attachment name, "di 1 ye gong 2 ye" for the page caption).             *)
(***************************************************************************)
EXTENDS Integers, Sequences, FiniteSets, TLC

(* ------------------------------ bounds -------------------------------- *)

\* Largest page count of an uploaded PDF.
MaxPages == 2

\* Most attachment and evidence files, together, of a drawn session state.
MaxFiles == 2

\* Most files of one FileList of an upload.
MaxUpload == 1

\* The start number a user types besides 0 and 1.
MaxStart == 9

\* Most invocations of processAndMergePDFs in flight at once.
MaxRuns == 2

\* Most user input events (uploads, removals, settings edits) of a session.
MaxEvents == 2

(* ------------------------- program constants -------------------------- *)

DefaultFontSize == 16
CaptionFontSize == 10
MinFontSize == 10
MaxFontSize == 30
DefaultStartNumber == 1

DefaultAttachmentName == "fujian"
DefaultEvidenceName == "zhengwu"

EmptyInputAlert == "qing zhishao shangchuan yige dangan"
FontLoadingAlert == "ziti zairu zhong, qing shaohou zaishi"
ProcessErrorAlert == "chuli PDF shi fasheng cuowu, qing jiancha dangan geshi"

\* null, for the string-valued state (fontBytes, alert).
NULL == "null"

\* What fetch(...).arrayBuffer() can resolve to: the font, or the body of a
\* response that is no font (fetch resolves on any HTTP status).
FontBuffers == {"NotoSansSC", "notafont"}

(* ------------------------------ values -------------------------------- *)

\* A File: a buffer that parses as a PDF of pageCount pages, or one that
\* PDFDocument.load rejects.
Pdf(n) == [valid |-> TRUE, pageCount |-> n]
Corrupt == [valid |-> FALSE, pageCount |-> 0]
Files == {Pdf(n) : n \in 1..MaxPages} \cup {Corrupt}

FileWithInfo(f, id) == [file |-> f, id |-> id]

\* mainDocument = null (ids of uploaded files start at 1).
NoDocument == [file |-> Corrupt, id |-> 0]

\* previewUrl: null, or the object URL of a blob of the given pages.
NoPreview == [null |-> TRUE, pages |-> <<>>]
Preview(pages) == [null |-> FALSE, pages |-> pages]

\* The lists of at most n files out of S.
FileLists(S, n) == UNION {[1..k -> S] : k \in 0..n}

\* The files a user picks in a session: a one-page PDF (odd, so padded) and a
\* file that is no PDF.
UploadFiles == {Pdf(1), Corrupt}

\* A page of a document: copied from page `index` (0-based) of the source file
\* `src`, or a blank page (src = 0); `drawn` lists the drawText calls on it.
CopiedPage(id, index) == [blank |-> FALSE, src |-> id, index |-> index, drawn |-> <<>>]
BlankPage == [blank |-> TRUE, src |-> 0, index |-> 0, drawn |-> <<>>]

Digit(d) == <<"0", "1", "2", "3", "4", "5", "6", "7", "8", "9">>[d + 1]

\* Number -> string of a template literal, for a non-negative integer.
RECURSIVE NumberToString(_)
NumberToString(n) ==
    IF n < 10 THEN Digit(n) ELSE NumberToString(n \div 10) \o Digit(n % 10)

(* ------------------------------- state -------------------------------- *)

VARIABLES
    mainDocument,            \* FileWithInfo or NoDocument
    attachments,             \* sequence of FileWithInfo
    evidence,                \* sequence of FileWithInfo
    isProcessing,
    previewUrl,              \* NoPreview or Preview(pages)
    fontBytes,               \* NULL or a member of FontBuffers
    fontSize,
    attachmentStartNumber,
    evidenceStartNumber,
    addBlankForDoubleSided,
    attachmentName,
    evidenceName,
    isSettingsExpanded,
    rendered,                \* isProcessing and fontBytes of the committed render
    fontFetch,               \* "pending" until loadFont has settled
    runs,                    \* the invocations of processAndMergePDFs in flight
    alert,                   \* the last alert() shown, or NULL
    ended,                   \* how the last ended invocation ended, and its output
    nextId,                  \* the ids drawn so far, plus one
    events                   \* user input events so far

files == <<mainDocument, attachments, evidence>>
settings == <<fontSize, attachmentStartNumber, evidenceStartNumber,
              addBlankForDoubleSided, attachmentName, evidenceName, isSettingsExpanded>>
vars == <<mainDocument, attachments, evidence, isProcessing, previewUrl,
          fontBytes, fontSize, attachmentStartNumber, evidenceStartNumber,
          addBlankForDoubleSided, attachmentName, evidenceName, isSettingsExpanded,
          rendered, fontFetch, runs, alert, ended, nextId, events>>

\* The state after App's first render.
Init ==
    /\ mainDocument = NoDocument
    /\ attachments = <<>>
    /\ evidence = <<>>
    /\ isProcessing = FALSE
    /\ previewUrl = NoPreview
    /\ fontBytes = NULL
    /\ fontSize = DefaultFontSize
    /\ attachmentStartNumber = DefaultStartNumber
    /\ evidenceStartNumber = DefaultStartNumber
    /\ addBlankForDoubleSided = TRUE
    /\ attachmentName = DefaultAttachmentName
    /\ evidenceName = DefaultEvidenceName
    /\ isSettingsExpanded = FALSE
    /\ rendered = [isProcessing |-> FALSE, fontBytes |-> NULL]
    /\ fontFetch = "pending"
    /\ runs = <<>>
    /\ alert = NULL
    /\ ended = [outcome |-> "none", output |-> <<>>]
    /\ nextId = 1
    /\ events = 0

(* --------------------------- pdf-lib calls ---------------------------- *)

\* PDFDocument.load(bytes) of a valid file, as the pages of the document.
LoadedPages(f) == [k \in 1..f.file.pageCount |-> CopiedPage(f.id, k - 1)]

\* page.drawText(text, {size, ...}) near a corner of the page.
DrawText(page, text, size, corner) ==
    [page EXCEPT !.drawn = Append(@, [text |-> text, size |-> size, corner |-> corner])]

PageNumberTextZeroBased(index, pageCount) ==
    "di " \o NumberToString(index) \o " ye gong " \o NumberToString(pageCount) \o " ye"

\* The caption of addTextToPDF's forEach.
PageNumberText(index, pageCount) ==
    "di " \o NumberToString(index + 1) \o " ye gong " \o NumberToString(pageCount) \o " ye"

\* The title goes on pages[0] only.
TitlePages(pages, text, textFontSize) ==
    IF Len(pages) > 0
    THEN [pages EXCEPT ![1] = DrawText(@, text, textFontSize, "top-right")]
    ELSE pages

\* The page numbers go on every page.
NumberedPages(pages, pageCount) ==
    [k \in 1..Len(pages) |->
        DrawText(pages[k], PageNumberText(k - 1, pageCount), CaptionFontSize, "bottom-right")]

\* embedFont: fontkit rejects a buffer that is no font; without a buffer the
\* standard font is embedded.
EmbedFontThrows(fontBuffer) == fontBuffer # NULL /\ fontBuffer # "NotoSansSC"

\* addTextToPDF on the parsed pages of pdfBytes: the pages of the saved result.
addTextToPDF(pages, text, pageCount, textFontSize) ==
    NumberedPages(TitlePages(pages, text, textFontSize), pageCount)

NeedsBlankPageAlways(addBlank, pageCount) == addBlank

NeedsBlankPageWhenEven(addBlank, pageCount) == addBlank /\ pageCount % 2 = 0

\* The blank page after a file of odd page count.
NeedsBlankPage(addBlank, pageCount) == addBlank /\ pageCount % 2 # 0

AddPagesBlankFirst(mergedPdf, pages, addBlank, pageCount) ==
    IF NeedsBlankPage(addBlank, pageCount)
    THEN Append(mergedPdf, BlankPage) \o pages
    ELSE mergedPdf \o pages

\* pages.forEach(page => mergedPdf.addPage(page)), then the optional addPage().
AddPages(mergedPdf, pages, addBlank, pageCount) ==
    IF NeedsBlankPage(addBlank, pageCount)
    THEN Append(mergedPdf \o pages, BlankPage)
    ELSE mergedPdf \o pages

LabelOneBased(name, startNumber, i) == name \o NumberToString(startNumber + i + 1)

\* The label of the i-th file (0-based) of a group.
Label(name, startNumber, i) == name \o NumberToString(startNumber + i)

(* ----------------------- processAndMergePDFs -------------------------- *)

IsEmptyInputLostNot(main, atts, evs) == main # NoDocument /\ Len(atts) = 0 /\ Len(evs) = 0

\* The guard of the first early return.
IsEmptyInput(main, atts, evs) == main = NoDocument /\ Len(atts) = 0 /\ Len(evs) = 0

DisabledWhenEmpty(processing, main, atts, evs) == IsEmptyInput(main, atts, evs)

\* The button's disabled attribute, from the values of a render.
Disabled(processing, main, atts, evs) == processing \/ IsEmptyInput(main, atts, evs)

\* PDFDocument.load throws on a buffer that is no PDF.
LoadThrows(f) == ~f.file.valid

\* The next await of the body, at or after the evidence loop's iteration i.
AtEvidence(c, i) ==
    IF i < Len(c.evidence) THEN [pc |-> "evidence", i |-> i] ELSE [pc |-> "save", i |-> 0]

\* The next await at or after the attachment loop's iteration i.
AtAttachments(c, i) ==
    IF i < Len(c.attachments) THEN [pc |-> "attachments", i |-> i] ELSE AtEvidence(c, 0)

\* The next await from the top of the try block.
AtMain(c) ==
    IF c.mainDocument # NoDocument THEN [pc |-> "main", i |-> 0] ELSE AtAttachments(c, 0)

\* The values the handler's closure holds: those of the render it was made in.
\* Files and settings are set in event handlers only, and React renders after
\* each, so the render's values of these are the state's.
Closure ==
    [mainDocument |-> mainDocument, attachments |-> attachments, evidence |-> evidence,
     attachmentName |-> attachmentName, evidenceName |-> evidenceName,
     attachmentStartNumber |-> attachmentStartNumber,
     evidenceStartNumber |-> evidenceStartNumber,
     addBlankForDoubleSided |-> addBlankForDoubleSided,
     fontBytes |-> rendered.fontBytes, fontSize |-> fontSize]

\* An invocation that has passed the early returns: mergedPdf is empty and the
\* body waits at its first file.
NewRun(c) == [c |-> c, at |-> AtMain(c), mergedPdf |-> <<>>]

RemoveAt(s, r) == [k \in 1..(Len(s) - 1) |-> IF k < r THEN s[k] ELSE s[k + 1]]

\* The handler up to its first await: the two early returns, then
\* setIsProcessing(true).  The caller says what the render does.
processAndMergePDFs ==
    /\ Len(runs) < MaxRuns
    /\ IF IsEmptyInput(mainDocument, attachments, evidence)
       THEN /\ alert' = EmptyInputAlert
            /\ ended' = [outcome |-> "empty", output |-> <<>>]
            /\ UNCHANGED <<isProcessing, runs>>
       ELSE IF rendered.fontBytes = NULL
       THEN /\ alert' = FontLoadingAlert
            /\ ended' = [outcome |-> "nofont", output |-> <<>>]
            /\ UNCHANGED <<isProcessing, runs>>
       ELSE /\ isProcessing' = TRUE
            /\ runs' = Append(runs, NewRun(Closure))
            /\ UNCHANGED <<alert, ended>>
    /\ UNCHANGED <<files, settings, previewUrl, fontBytes, fontFetch, nextId, events>>

FailedKeepsPartial(r) ==
    /\ alert' = ProcessErrorAlert
    /\ isProcessing' = FALSE
    /\ runs' = RemoveAt(runs, r)
    /\ ended' = [outcome |-> "error", output |-> <<>>]
    /\ previewUrl' = Preview(runs[r].mergedPdf)

FailedLeavesFlag(r) ==
    /\ alert' = ProcessErrorAlert
    /\ runs' = RemoveAt(runs, r)
    /\ ended' = [outcome |-> "error", output |-> <<>>]
    /\ UNCHANGED <<isProcessing, previewUrl>>

\* catch and finally of a run whose await threw.
Failed(r) ==
    /\ alert' = ProcessErrorAlert
    /\ isProcessing' = FALSE
    /\ runs' = RemoveAt(runs, r)
    /\ ended' = [outcome |-> "error", output |-> <<>>]
    /\ UNCHANGED previewUrl

\* Run r goes on to its next await with the pages of one more file merged.
Merged(r, pages, pageCount, next) ==
    /\ runs' = [runs EXCEPT ![r] =
                  [@ EXCEPT !.mergedPdf = AddPages(@, pages, runs[r].c.addBlankForDoubleSided,
                                                   pageCount),
                            !.at = next]]
    /\ UNCHANGED <<alert, isProcessing, ended, previewUrl>>

MainPagesNumbered(f) == NumberedPages(LoadedPages(f), f.file.pageCount)

\* The main document's pages, copied as they are.
MainPages(f) == LoadedPages(f)

\* if (mainDocument) { ... }
StepMain(r) ==
    /\ runs[r].at.pc = "main"
    /\ LET c == runs[r].c
           f == c.mainDocument
       IN  IF LoadThrows(f)
           THEN Failed(r)
           ELSE Merged(r, MainPages(f), f.file.pageCount, AtAttachments(c, 0))
    /\ UNCHANGED <<files, settings, fontBytes, fontFetch, rendered, nextId, events>>

\* One iteration of the attachment loop.
StepAttachment(r) ==
    /\ runs[r].at.pc = "attachments"
    /\ LET c == runs[r].c
           i == runs[r].at.i
           f == c.attachments[i + 1]
           pageCount == f.file.pageCount
       IN  IF LoadThrows(f) \/ EmbedFontThrows(c.fontBytes)
           THEN Failed(r)
           ELSE Merged(r,
                       addTextToPDF(LoadedPages(f),
                                    Label(c.attachmentName, c.attachmentStartNumber, i),
                                    pageCount, c.fontSize),
                       pageCount, AtAttachments(c, i + 1))
    /\ UNCHANGED <<files, settings, fontBytes, fontFetch, rendered, nextId, events>>

\* One iteration of the evidence loop.
StepEvidence(r) ==
    /\ runs[r].at.pc = "evidence"
    /\ LET c == runs[r].c
           i == runs[r].at.i
           f == c.evidence[i + 1]
           pageCount == f.file.pageCount
       IN  IF LoadThrows(f) \/ EmbedFontThrows(c.fontBytes)
           THEN Failed(r)
           ELSE Merged(r,
                       addTextToPDF(LoadedPages(f),
                                    Label(c.evidenceName, c.evidenceStartNumber, i),
                                    pageCount, c.fontSize),
                       pageCount, AtEvidence(c, i + 1))
    /\ UNCHANGED <<files, settings, fontBytes, fontFetch, rendered, nextId, events>>

\* mergedPdf.save(), setPreviewUrl(url), and the finally block.
StepSave(r) ==
    /\ runs[r].at.pc = "save"
    /\ previewUrl' = Preview(runs[r].mergedPdf)
    /\ isProcessing' = FALSE
    /\ runs' = RemoveAt(runs, r)
    /\ ended' = [outcome |-> "ok", output |-> runs[r].mergedPdf]
    /\ UNCHANGED <<alert, files, settings, fontBytes, fontFetch, rendered, nextId, events>>

(* ------------------------------ renders ------------------------------- *)

\* What a render commits of the state set outside event handlers.
Committed(processing, font) == [isProcessing |-> processing, fontBytes |-> font]

\* The render React schedules after a setState made outside an event handler.
Render ==
    /\ rendered # Committed(isProcessing, fontBytes)
    /\ rendered' = Committed(isProcessing, fontBytes)
    /\ UNCHANGED <<files, settings, isProcessing, previewUrl, fontBytes, fontFetch, runs,
                   alert, ended, nextId, events>>

(* ------------------- the handler called on its own -------------------- *)

\* A session state to call the handler in: the files and settings are drawn,
\* no invocation is in flight and nothing has been merged yet.
InitAsm ==
    /\ mainDocument \in {NoDocument} \cup {FileWithInfo(f, 1) : f \in Files}
    /\ \E atts \in FileLists(Files, MaxFiles), evs \in FileLists(Files, MaxFiles) :
          /\ Len(atts) + Len(evs) <= MaxFiles
          /\ attachments = [k \in 1..Len(atts) |-> FileWithInfo(atts[k], 1 + k)]
          /\ evidence = [k \in 1..Len(evs) |-> FileWithInfo(evs[k], 1 + Len(atts) + k)]
    /\ isProcessing = FALSE
    /\ previewUrl = NoPreview
    /\ fontBytes \in {NULL} \cup FontBuffers
    /\ fontSize = DefaultFontSize
    /\ attachmentStartNumber \in {DefaultStartNumber, MaxStart}
    /\ evidenceStartNumber \in {DefaultStartNumber, MaxStart}
    /\ addBlankForDoubleSided \in BOOLEAN
    /\ attachmentName = DefaultAttachmentName
    /\ evidenceName = DefaultEvidenceName
    /\ isSettingsExpanded = FALSE
    /\ rendered = Committed(isProcessing, fontBytes)
    /\ fontFetch = "done"
    /\ runs = <<>>
    /\ alert = NULL
    /\ ended = [outcome |-> "none", output |-> <<>>]
    /\ nextId = 2 + MaxFiles
    /\ events = 0

\* The handler called directly, one call at a time (each awaited).
Invoke ==
    /\ runs = <<>>
    /\ processAndMergePDFs
    /\ UNCHANGED rendered

NextAsm ==
    \/ Invoke
    \/ \E r \in 1..Len(runs) : StepMain(r)
    \/ \E r \in 1..Len(runs) : StepAttachment(r)
    \/ \E r \in 1..Len(runs) : StepEvidence(r)
    \/ \E r \in 1..Len(runs) : StepSave(r)
    \/ Render

SpecAsm == InitAsm /\ [][NextAsm]_vars

(* --------------------------- the session ------------------------------ *)

\* What the user types or picks in the inputs.
FontSizeInputs == {MinFontSize, MaxFontSize}
StartInputs == {-1, 0, DefaultStartNumber, MaxStart}
NameInputs == {"", "A"}

\* Math.max(1, parseInt(value) || 1); a value that does not parse is falsy, as 0 is.
StartNumber(v) == IF (IF v = 0 THEN 1 ELSE v) > 1 THEN v ELSE 1

\* A user input event is handled, and React renders before the next event.
UserEvent ==
    /\ events < MaxEvents
    /\ events' = events + 1
    /\ rendered' = Committed(isProcessing, fontBytes)
    /\ UNCHANGED <<isProcessing, previewUrl, fontBytes, fontFetch, runs, alert, ended>>

\* loadFont: the fetch and arrayBuffer() resolved.
FontLoaded(buffer) ==
    /\ fontFetch = "pending"
    /\ fontFetch' = "done"
    /\ fontBytes' = buffer
    /\ UNCHANGED <<files, settings, isProcessing, previewUrl, rendered, runs, alert, ended,
                   nextId, events>>

\* loadFont: the fetch rejected, and the catch block ran.
FontFailed ==
    /\ fontFetch = "pending"
    /\ fontFetch' = "done"
    /\ fontBytes' = NULL
    /\ UNCHANGED <<files, settings, isProcessing, previewUrl, rendered, runs, alert, ended,
                   nextId, events>>

\* Array.from(files).map(...): each file gets a fresh id.
NewFiles(fileList, firstId) ==
    [k \in 1..Len(fileList) |-> FileWithInfo(fileList[k], firstId + k - 1)]

\* handleFileUpload(files, 'main'): the input is there while no main document
\* is, and takes one file.
UploadMain(fileList) ==
    /\ mainDocument = NoDocument
    /\ UserEvent
    /\ mainDocument' = IF Len(fileList) > 0 THEN NewFiles(fileList, nextId)[1] ELSE NoDocument
    /\ nextId' = nextId + Len(fileList)
    /\ UNCHANGED <<attachments, evidence, settings>>

\* handleFileUpload(files, 'attachment')
UploadAttachments(fileList) ==
    /\ UserEvent
    /\ attachments' = attachments \o NewFiles(fileList, nextId)
    /\ nextId' = nextId + Len(fileList)
    /\ UNCHANGED <<mainDocument, evidence, settings>>

\* handleFileUpload(files, 'evidence')
UploadEvidence(fileList) ==
    /\ UserEvent
    /\ evidence' = evidence \o NewFiles(fileList, nextId)
    /\ nextId' = nextId + Len(fileList)
    /\ UNCHANGED <<mainDocument, attachments, settings>>

WithoutIdKeepsOnly(list, id) == SelectSeq(list, LAMBDA f : f.id = id)

\* prev.filter(f => f.id !== id)
WithoutId(list, id) == SelectSeq(list, LAMBDA f : f.id # id)

\* removeFile(mainDocument.id, 'main')
RemoveMain ==
    /\ mainDocument # NoDocument
    /\ UserEvent
    /\ mainDocument' = NoDocument
    /\ UNCHANGED <<attachments, evidence, settings, nextId>>

\* removeFile(id, 'attachment'), from the button of a listed attachment.
RemoveAttachment(id) ==
    /\ \E k \in 1..Len(attachments) : attachments[k].id = id
    /\ UserEvent
    /\ attachments' = WithoutId(attachments, id)
    /\ UNCHANGED <<mainDocument, evidence, settings, nextId>>

\* removeFile(id, 'evidence'), from the button of a listed evidence file.
RemoveEvidence(id) ==
    /\ \E k \in 1..Len(evidence) : evidence[k].id = id
    /\ UserEvent
    /\ evidence' = WithoutId(evidence, id)
    /\ UNCHANGED <<mainDocument, attachments, settings, nextId>>

ToggleSettings ==
    /\ UserEvent
    /\ isSettingsExpanded' = ~isSettingsExpanded
    /\ UNCHANGED <<files, fontSize, attachmentStartNumber, evidenceStartNumber,
                   addBlankForDoubleSided, attachmentName, evidenceName, nextId>>

\* The range input of the expanded settings panel.
SetFontSize(v) ==
    /\ isSettingsExpanded
    /\ UserEvent
    /\ fontSize' = v
    /\ UNCHANGED <<files, attachmentStartNumber, evidenceStartNumber, addBlankForDoubleSided,
                   attachmentName, evidenceName, isSettingsExpanded, nextId>>

\* The checkbox of the expanded settings panel.
SetAddBlankForDoubleSided ==
    /\ isSettingsExpanded
    /\ UserEvent
    /\ addBlankForDoubleSided' = ~addBlankForDoubleSided
    /\ UNCHANGED <<files, fontSize, attachmentStartNumber, evidenceStartNumber,
                   attachmentName, evidenceName, isSettingsExpanded, nextId>>

SetAttachmentStartNumber(v) ==
    /\ UserEvent
    /\ attachmentStartNumber' = StartNumber(v)
    /\ UNCHANGED <<files, fontSize, evidenceStartNumber, addBlankForDoubleSided,
                   attachmentName, evidenceName, isSettingsExpanded, nextId>>

SetEvidenceStartNumber(v) ==
    /\ UserEvent
    /\ evidenceStartNumber' = StartNumber(v)
    /\ UNCHANGED <<files, fontSize, attachmentStartNumber, addBlankForDoubleSided,
                   attachmentName, evidenceName, isSettingsExpanded, nextId>>

SetAttachmentName(name) ==
    /\ UserEvent
    /\ attachmentName' = name
    /\ UNCHANGED <<files, fontSize, attachmentStartNumber, evidenceStartNumber,
                   addBlankForDoubleSided, evidenceName, isSettingsExpanded, nextId>>

SetEvidenceName(name) ==
    /\ UserEvent
    /\ evidenceName' = name
    /\ UNCHANGED <<files, fontSize, attachmentStartNumber, evidenceStartNumber,
                   addBlankForDoubleSided, attachmentName, isSettingsExpanded, nextId>>

\* A click on the merge button, enabled in the committed render; React
\* renders the handler's setIsProcessing before the next event.
ClickMerge ==
    /\ ~Disabled(rendered.isProcessing, mainDocument, attachments, evidence)
    /\ processAndMergePDFs
    /\ rendered' = Committed(isProcessing', fontBytes)

Next ==
    \/ \E buffer \in FontBuffers : FontLoaded(buffer)
    \/ FontFailed
    \/ \E fileList \in FileLists(UploadFiles, 1) : UploadMain(fileList)
    \/ \E fileList \in FileLists(UploadFiles, MaxUpload) : UploadAttachments(fileList)
    \/ \E fileList \in FileLists(UploadFiles, MaxUpload) : UploadEvidence(fileList)
    \/ RemoveMain
    \/ \E id \in 1..(nextId - 1) : RemoveAttachment(id)
    \/ \E id \in 1..(nextId - 1) : RemoveEvidence(id)
    \/ ToggleSettings
    \/ \E v \in FontSizeInputs : SetFontSize(v)
    \/ SetAddBlankForDoubleSided
    \/ \E v \in StartInputs : SetAttachmentStartNumber(v)
    \/ \E v \in StartInputs : SetEvidenceStartNumber(v)
    \/ \E name \in NameInputs : SetAttachmentName(name)
    \/ \E name \in NameInputs : SetEvidenceName(name)
    \/ ClickMerge
    \/ \E r \in 1..Len(runs) : StepMain(r)
    \/ \E r \in 1..Len(runs) : StepAttachment(r)
    \/ \E r \in 1..Len(runs) : StepEvidence(r)
    \/ \E r \in 1..Len(runs) : StepSave(r)
    \/ Render

Spec == Init /\ [][Next]_vars

(* --------------------------- the file intake -------------------------- *)

\* A session in which files have been uploaded (ids in upload order: the main
\* document, then the attachments, then the evidence files) and the
\* attachment start number may have been edited; the font has loaded.
InitFiles ==
    /\ \E main \in FileLists(UploadFiles, 1),
          atts \in FileLists(UploadFiles, MaxFiles), evs \in FileLists(UploadFiles, MaxFiles) :
          /\ Len(atts) + Len(evs) <= MaxFiles
          /\ mainDocument = IF Len(main) > 0 THEN FileWithInfo(main[1], 1) ELSE NoDocument
          /\ attachments = NewFiles(atts, 1 + Len(main))
          /\ evidence = NewFiles(evs, 1 + Len(main) + Len(atts))
          /\ nextId = 1 + Len(main) + Len(atts) + Len(evs)
    /\ isProcessing = FALSE
    /\ previewUrl = NoPreview
    /\ fontBytes = "NotoSansSC"
    /\ fontSize = DefaultFontSize
    /\ attachmentStartNumber \in {DefaultStartNumber, MaxStart}
    /\ evidenceStartNumber = DefaultStartNumber
    /\ addBlankForDoubleSided = TRUE
    /\ attachmentName = DefaultAttachmentName
    /\ evidenceName = DefaultEvidenceName
    /\ isSettingsExpanded = FALSE
    /\ rendered = Committed(isProcessing, fontBytes)
    /\ fontFetch = "done"
    /\ runs = <<>>
    /\ alert = NULL
    /\ ended = [outcome |-> "none", output |-> <<>>]
    /\ events = 0

\* handleFileUpload and removeFile, from the inputs and buttons of the page.
NextFiles ==
    \/ \E fileList \in FileLists(UploadFiles, 1) : UploadMain(fileList)
    \/ \E fileList \in FileLists(UploadFiles, MaxUpload) : UploadAttachments(fileList)
    \/ \E fileList \in FileLists(UploadFiles, MaxUpload) : UploadEvidence(fileList)
    \/ RemoveMain
    \/ \E id \in 1..(nextId - 1) : RemoveAttachment(id)
    \/ \E id \in 1..(nextId - 1) : RemoveEvidence(id)

SpecFiles == InitFiles /\ [][NextFiles]_vars

\* A continuation of a run: the promise it awaits settles.
RunStep ==
    \E r \in 1..Len(runs) : StepMain(r) \/ StepAttachment(r) \/ StepEvidence(r) \/ StepSave(r)

\* The session with the event loop's guarantees: a settled promise's
\* continuation runs, and a scheduled render is committed.
SpecFair == Spec /\ WF_vars(RunStep) /\ WF_vars(Render)

(* ------------------------------ claims -------------------------------- *)
(* Under SpecAsm the files and settings stay as drawn, so the output of an  *)
(* ended invocation is compared with the state's own files and settings.    *)

\* The source files in the order claimed for the output.
SourceFiles ==
    (IF mainDocument = NoDocument THEN <<>> ELSE <<mainDocument>>) \o attachments \o evidence

Odd(n) == n % 2 = 1

\* Whether a file is followed by a blank page, as the claims state it.
PaddedFile(f) == addBlankForDoubleSided /\ Odd(f.file.pageCount)

RECURSIVE ExpectedPageCount(_)
ExpectedPageCount(fs) ==
    IF fs = <<>> THEN 0
    ELSE Head(fs).file.pageCount + (IF PaddedFile(Head(fs)) THEN 1 ELSE 0) + ExpectedPageCount(Tail(fs))

Succeeded == ended.outcome = "ok"

HasOddFile == \E k \in 1..Len(SourceFiles) : Odd(SourceFiles[k].file.pageCount)

\* C1: the merged output of a successful run has as many pages as its source
\* files together, plus one for each odd-paged file when padding is on.
C1_PageCount == Succeeded => Len(ended.output) = ExpectedPageCount(SourceFiles)

C1_Witness ==
    /\ Succeeded
    /\ addBlankForDoubleSided
    /\ mainDocument # NoDocument /\ attachments # <<>> /\ evidence # <<>>
    /\ HasOddFile

\* Where an output page comes from: <<source id, 1-based page>>, <<0, 0>> if blank.
Origin(page) == IF page.blank THEN <<0, 0>> ELSE <<page.src, page.index + 1>>

\* A file's part of the output, as origins.
ExpectedPart(f) ==
    [k \in 1..(f.file.pageCount + (IF PaddedFile(f) THEN 1 ELSE 0)) |->
        IF k <= f.file.pageCount THEN <<f.id, k>> ELSE <<0, 0>>]

RECURSIVE ExpectedOrigins(_)
ExpectedOrigins(fs) ==
    IF fs = <<>> THEN <<>> ELSE ExpectedPart(Head(fs)) \o ExpectedOrigins(Tail(fs))

\* C2: the output is the main file's pages, then each attachment's, then each
\* evidence file's, in list and page order, with a blank page directly after
\* a file exactly when padding is on and that file's page count is odd.
C2_PageSequence ==
    Succeeded =>
        [p \in 1..Len(ended.output) |-> Origin(ended.output[p])] = ExpectedOrigins(SourceFiles)

C2_Witness ==
    /\ Succeeded
    /\ addBlankForDoubleSided
    /\ mainDocument # NoDocument /\ mainDocument.file.pageCount = 2
    /\ Len(attachments) = 1 /\ Odd(attachments[1].file.pageCount)
    /\ Len(evidence) = 1

\* The value of a string of decimal digits.
DigitValue(ch) == CHOOSE d \in 0..9 : Digit(d) = ch
IsDigit(ch) == \E d \in 0..9 : Digit(d) = ch
RECURSIVE DecimalValue(_)
DecimalValue(str) ==
    IF Len(str) = 0 THEN 0
    ELSE 10 * DecimalValue(SubSeq(str, 1, Len(str) - 1)) + DigitValue(SubSeq(str, Len(str), Len(str)))

\* str is the decimal numeral of n: digits only, no leading zero.
IsDecimalOf(str, n) ==
    /\ Len(str) > 0
    /\ \A k \in 1..Len(str) : IsDigit(SubSeq(str, k, k))
    /\ Len(str) > 1 => SubSeq(str, 1, 1) # "0"
    /\ DecimalValue(str) = n

\* text is prefix immediately followed by the decimal numeral of n.
IsLabel(text, prefix, n) ==
    /\ Len(text) > Len(prefix)
    /\ SubSeq(text, 1, Len(prefix)) = prefix
    /\ IsDecimalOf(SubSeq(text, Len(prefix) + 1, Len(text)), n)

\* The texts drawn on a page near its top-right corner.
Titles(page) ==
    {page.drawn[k].text : k \in {j \in 1..Len(page.drawn) : page.drawn[j].corner = "top-right"}}

\* The pages of the output copied from file f.
PagesOf(f) == {p \in 1..Len(ended.output) : ~ended.output[p].blank /\ ended.output[p].src = f.id}

\* The i-th file (0-based) of a group shows exactly its label on its first
\* page and no title on its other pages.
Labelled(group, prefix, startIndex) ==
    \A k \in 1..Len(group) :
        \A p \in PagesOf(group[k]) :
            LET titles == Titles(ended.output[p])
            IN  IF ended.output[p].index = 0
                THEN /\ Cardinality(titles) = 1
                     /\ \A t \in titles : IsLabel(t, prefix, startIndex + (k - 1))
                ELSE titles = {}

\* C3: the i-th attachment and the i-th evidence file carry the label
\* prefix + (startIndex + i), in decimal, on their first page and on no
\* other page.
C3_Labels ==
    Succeeded =>
        /\ Labelled(attachments, attachmentName, attachmentStartNumber)
        /\ Labelled(evidence, evidenceName, evidenceStartNumber)

C3_Witness ==
    /\ Succeeded
    /\ Len(attachments) = 2
    /\ attachments[2].file.pageCount >= 2
    /\ attachmentStartNumber = MaxStart

\* The texts drawn on a page near its bottom-right corner.
Captions(page) ==
    {page.drawn[k].text : k \in {j \in 1..Len(page.drawn) : page.drawn[j].corner = "bottom-right"}}

\* text reads "di <n> ye gong <total> ye": the numeral of n ends at a, and
\* the numeral of total starts after the nine characters of " ye gong ".
IsCaption(text, n, total) ==
    \E a \in 4..(Len(text) - 13) :
        /\ SubSeq(text, 1, 3) = "di "
        /\ IsDecimalOf(SubSeq(text, 4, a), n)
        /\ SubSeq(text, a + 1, a + 9) = " ye gong "
        /\ IsDecimalOf(SubSeq(text, a + 10, Len(text) - 3), total)
        /\ SubSeq(text, Len(text) - 2, Len(text)) = " ye"

\* The pages copied from file f each carry the caption of their own position
\* in f and of f's page count.
Captioned(f) ==
    \A p \in PagesOf(f) :
        LET captions == Captions(ended.output[p])
        IN  /\ Cardinality(captions) = 1
            /\ \A t \in captions : IsCaption(t, ended.output[p].index + 1, f.file.pageCount)

\* C4 as claimed: every page of the output carries the caption of its
\* position in its own source file and of that file's page count.
C4_EveryPageCaptioned ==
    Succeeded =>
        /\ \A k \in 1..Len(SourceFiles) : Captioned(SourceFiles[k])
        /\ \A p \in 1..Len(ended.output) : Captions(ended.output[p]) # {}

\* C4, amended: every page copied from an attachment or an evidence file
\* carries the caption of its position in its own source file and of that
\* file's page count.
C4_StampedPagesCaptioned ==
    Succeeded =>
        /\ \A k \in 1..Len(attachments) : Captioned(attachments[k])
        /\ \A k \in 1..Len(evidence) : Captioned(evidence[k])

C4_Witness ==
    /\ Succeeded
    /\ mainDocument # NoDocument
    /\ \E k \in 1..Len(attachments) : attachments[k].file.pageCount >= 2
    /\ \E p \in 1..Len(ended.output) : ended.output[p].blank

StampedIds == {attachments[k].id : k \in 1..Len(attachments)}
                  \cup {evidence[k].id : k \in 1..Len(evidence)}

\* C5: a page of the output carries drawn text only if it was copied from an
\* attachment or an evidence file; main pages and blank pages carry none.
C5_OnlySupplementsStamped ==
    Succeeded =>
        \A p \in 1..Len(ended.output) :
            ended.output[p].drawn # <<>> =>
                ~ended.output[p].blank /\ ended.output[p].src \in StampedIds

C5_Witness ==
    /\ Succeeded
    /\ \E p \in 1..Len(ended.output) :
          ~ended.output[p].blank /\ ended.output[p].src = mainDocument.id
    /\ \E p \in 1..Len(ended.output) : ended.output[p].blank
    /\ \E p \in 1..Len(ended.output) : ended.output[p].drawn # <<>>

\* C6: with padding on, the first page of every source file is at an odd
\* 1-based position of the output.
C6_FilesStartOnOddPage ==
    (Succeeded /\ addBlankForDoubleSided) =>
        \A p \in 1..Len(ended.output) :
            (~ended.output[p].blank /\ ended.output[p].index = 0) => Odd(p)

C6_Witness ==
    /\ Succeeded
    /\ addBlankForDoubleSided
    /\ Len(SourceFiles) = 3
    /\ Odd(SourceFiles[1].file.pageCount)
    /\ ~Odd(SourceFiles[2].file.pageCount)

NoInput == mainDocument = NoDocument /\ attachments = <<>> /\ evidence = <<>>

\* C7: called with no main file, no attachment and no evidence file, the
\* handler ends with the empty-input alert and no output; no run starts, the
\* processing flag is not raised and the preview is not set.
C7_EmptyInputRejected ==
    NoInput =>
        /\ ended.outcome \in {"none", "empty"}
        /\ ended.outcome = "empty" => alert = EmptyInputAlert /\ ended.output = <<>>
        /\ runs = <<>>
        /\ ~isProcessing
        /\ previewUrl = NoPreview

C7_Witness == NoInput /\ ended.outcome = "empty"

HasCorruptFile == \E k \in 1..Len(SourceFiles) : ~SourceFiles[k].file.valid

\* C8: with a source file that cannot be parsed, at any position, a run that
\* started ends in failure with the error alert, and no output is ever
\* exposed: the preview never holds the pages merged before the bad file.
C8_AllOrNothing ==
    HasCorruptFile =>
        /\ previewUrl = NoPreview
        /\ ended.outcome \in {"none", "nofont", "error"}
        /\ ended.outcome = "error" => alert = ProcessErrorAlert /\ ended.output = <<>>

C8_Witness ==
    /\ ended.outcome = "error"
    /\ fontBytes = "NotoSansSC"
    /\ mainDocument # NoDocument /\ mainDocument.file.valid
    /\ Len(attachments) = 1 /\ attachments[1].file.valid
    /\ Len(evidence) = 1 /\ ~evidence[1].file.valid

\* C9 as claimed: once the font fetch has failed, an invocation on a
\* non-empty input is not turned away for want of the font.
C9_FontFailureNotFatal ==
    [][(fontFetch = "done" /\ fontBytes = NULL /\ ~NoInput /\ ~HasCorruptFile /\ ended' # ended)
          => ended'.outcome # "nofont"]_vars

\* C10: at most one run is in flight, and while one is, the processing flag
\* is up and the committed render has the merge button disabled.
C10_OneRunInFlight ==
    /\ Len(runs) <= 1
    /\ Len(runs) = 1 =>
          /\ isProcessing
          /\ rendered.isProcessing

C10_Witness ==
    /\ Len(runs) = 1
    /\ runs[1].mergedPdf # <<>>
    /\ runs[1].c.attachments # attachments

\* A run ends in this step.
RunEnds == Len(runs') < Len(runs)

\* C11: a run that raised the processing flag ends, in success (the preview
\* is set to its output, no alert) or in failure (the error alert, the
\* preview kept), never both; the flag is lowered as it ends, is not up when
\* no run is in flight, and the committed render enables the button again.
C11_RunEndsAndLowersFlag ==
    /\ [](runs = <<>> => ~isProcessing)
    /\ [][RunEnds =>
            /\ ~isProcessing'
            /\ \/ /\ ended'.outcome = "ok"
                  /\ previewUrl' = Preview(ended'.output)
                  /\ alert' = alert
               \/ /\ ended'.outcome = "error"
                  /\ alert' = ProcessErrorAlert
                  /\ previewUrl' = previewUrl]_vars
    /\ (isProcessing ~> (~isProcessing /\ ended.outcome \in {"ok", "error"}))
    /\ (rendered.isProcessing ~> ~rendered.isProcessing)

C11_Witness ==
    /\ ended.outcome = "error"
    /\ alert = ProcessErrorAlert
    /\ previewUrl # NoPreview
    /\ ~isProcessing
    /\ ~rendered.isProcessing

\* The ids of a list, in list order.
Ids(list) == [k \in 1..Len(list) |-> list[k].id]

\* list without its k-th file.
Without(list, k) == [j \in 1..(Len(list) - 1) |-> IF j < k THEN list[j] ELSE list[j + 1]]

\* Ids are handed out in upload order, so a list in the order its files were
\* added has strictly increasing ids, all of them handed out already.
InOrderAdded(list) ==
    /\ \A j, k \in 1..Len(list) : j < k => list[j].id < list[k].id
    /\ \A k \in 1..Len(list) : list[k].id \in 1..(nextId - 1)

\* What a step may do to a group's list: leave it, append newly added files
\* (with the ids handed out in this step, in order), or take out exactly one
\* file, keeping the others in place and the rest of the state as it was.
ListStep(list, listAfter, othersUnchanged) ==
    \/ listAfter = list
    \/ /\ Len(listAfter) > Len(list)
       /\ SubSeq(listAfter, 1, Len(list)) = list
       /\ Ids(SubSeq(listAfter, Len(list) + 1, Len(listAfter)))
             = [k \in 1..(Len(listAfter) - Len(list)) |-> nextId + k - 1]
       /\ nextId' = nextId + (Len(listAfter) - Len(list))
    \/ /\ Len(listAfter) = Len(list) - 1
       /\ \E k \in 1..Len(list) : listAfter = Without(list, k)
       /\ othersUnchanged

\* C12: each of the attachment and evidence lists holds the files added to it
\* and not removed, in the order added; a removal takes exactly one file out
\* of its own list and leaves the order of the others, the other groups and
\* every setting unchanged.
C12_ListsKeepOrder ==
    /\ [](InOrderAdded(attachments) /\ InOrderAdded(evidence))
    /\ [][/\ ListStep(attachments, attachments',
                      UNCHANGED <<mainDocument, evidence, settings, nextId>>)
          /\ ListStep(evidence, evidence',
                      UNCHANGED <<mainDocument, attachments, settings, nextId>>)]_vars

\* The middle one of three attachments has been removed.
C12_Witness ==
    /\ Len(attachments) = 2
    /\ attachments[2].id = attachments[1].id + 2
    /\ mainDocument.id # attachments[1].id + 1
    /\ \A k \in 1..Len(evidence) : evidence[k].id # attachments[1].id + 1
    /\ attachmentStartNumber = MaxStart

====
